---- MODULE Spec2Model ----
(***************************************************************************)
(* HelixGate compile validator (src/04_validation/compile_validator.py)    *)
(* and snapshot generator (src/scripts/snapshot_generator.py).             *)
(*                                                                         *)
(* A parsed JSON document is a record [t, s, n, c]:                        *)
(*   t  the kind: "obj", "arr", "str", "num", "bool", "null"               *)
(*   s  the text of a string                                               *)
(*   n  the value of a number (for a bool: 1 is true, 0 is false)          *)
(*   c  the children in insertion order, each [k |-> key, v |-> value];    *)
(*      the elements of an array carry the key ""                          *)
(* Serialized text is a sequence of tokens; its utf-8 encoding is the      *)
(* sequence of the tokens' ranks in Vocab, which lists every token in      *)
(* code-point order.                                                       *)
(***************************************************************************)
EXTENDS Integers, Sequences, FiniteSets, TLC

VARIABLES files, gitdiff, rolling, archive, val, snap

vars == <<files, gitdiff, rolling, archive, val, snap>>

----------------------------------------------------------------------------
(* JSON values                                                             *)

JStr(str) == [t |-> "str", s |-> str, n |-> 0, c |-> <<>>]

JNum(num) == [t |-> "num", s |-> "", n |-> num, c |-> <<>>]

JBool(b) == [t |-> "bool", s |-> "", n |-> IF b THEN 1 ELSE 0, c |-> <<>>]

JNull == [t |-> "null", s |-> "", n |-> 0, c |-> <<>>]

JArr(items) == [t |-> "arr", s |-> "", n |-> 0,
                c |-> [i \in 1..Len(items) |-> [k |-> "", v |-> items[i]]]]

JObj(pairs) == [t |-> "obj", s |-> "", n |-> 0, c |-> pairs]

KV(key, value) == [k |-> key, v |-> value]

(* dict.keys() *)
Keys(obj) == {obj.c[i].k : i \in 1..Len(obj.c)}

(* obj[key], for a key the document carries *)
Item(obj, key) == obj.c[CHOOSE i \in 1..Len(obj.c) : obj.c[i].k = key].v

(* obj.get(key): None when the key is absent *)
Get(obj, key) == IF key \in Keys(obj) THEN Item(obj, key) ELSE JNull

(* obj.get(key, False) *)
GetOrFalse(obj, key) == IF key \in Keys(obj) THEN Item(obj, key) ELSE JBool(FALSE)

(* the elements of a list, in order *)
Elems(arr) == [i \in 1..Len(arr.c) |-> arr.c[i].v]

(* Python truth value of a parsed JSON value *)
Truthy(x) ==
    CASE x.t = "null" -> FALSE
      [] x.t = "bool" -> x.n = 1
      [] x.t = "num"  -> x.n # 0
      [] x.t = "str"  -> x.s # ""
      [] OTHER        -> Len(x.c) > 0

----------------------------------------------------------------------------
(* Text                                                                    *)

Vocab ==
    << "\"", ",", ", ", "0", "1", "2", "3", "4", "5", "6", "7", "8", "9", ":", ": ",
       "A", "B", "C", "D", "OTHER", "STRUCTURAL_ONLY", "[", "]",
       "ac_units", "acu_id", "edges", "false", "freeze_mode", "from",
       "nodes", "null", "operating_mode", "registry_hash",
       "registry_version", "to", "total_acu_count", "true", "{", "}" >>

Rank(tok) == CHOOSE i \in 1..Len(Vocab) : Vocab[i] = tok

RECURSIVE Digits(_)
Digits(num) ==
    IF num < 10 THEN <<Vocab[Rank("0") + num]>>
    ELSE Digits(num \div 10) \o <<Vocab[Rank("0") + (num % 10)]>>

RECURSIVE Concat(_)
Concat(seqs) == IF seqs = <<>> THEN <<>> ELSE Head(seqs) \o Concat(Tail(seqs))

(* sorted(keys): the keys of a dict in code-point order *)
RECURSIVE SortKeys(_)
SortKeys(keyset) ==
    IF keyset = {} THEN <<>>
    ELSE LET m == CHOOSE a \in keyset : \A b \in keyset : Rank(a) <= Rank(b)
         IN  <<m>> \o SortKeys(keyset \ {m})

Quoted(str) == << "\"", str, "\"" >>

----------------------------------------------------------------------------
(* Library functions both programs call                                    *)

(* json.dumps(obj, sort_keys=..., separators=(item_sep, key_sep),          *)
(* ensure_ascii=False) for non-negative integers and plain strings         *)
RECURSIVE json_dumps(_, _, _, _)
json_dumps(obj, sort_keys, item_sep, key_sep) ==
    LET keys == IF sort_keys THEN SortKeys(Keys(obj))
                ELSE [i \in 1..Len(obj.c) |-> obj.c[i].k]
        JoinWith(parts) ==
            IF parts = <<>> THEN <<>>
            ELSE Concat(<<parts[1]>> \o
                        [i \in 1..(Len(parts) - 1) |-> <<item_sep>> \o parts[i + 1]])
    IN  CASE obj.t = "obj" ->
               <<"{">> \o
               JoinWith([i \in 1..Len(keys) |->
                            Quoted(keys[i]) \o <<key_sep>> \o
                            json_dumps(Item(obj, keys[i]), sort_keys, item_sep, key_sep)]) \o
               <<"}">>
          [] obj.t = "arr" ->
               <<"[">> \o
               JoinWith([i \in 1..Len(obj.c) |->
                            json_dumps(obj.c[i].v, sort_keys, item_sep, key_sep)]) \o
               <<"]">>
          [] obj.t = "str"  -> Quoted(obj.s)
          [] obj.t = "num"  -> Digits(obj.n)
          [] obj.t = "bool" -> IF obj.n = 1 THEN <<"true">> ELSE <<"false">>
          [] OTHER          -> <<"null">>

(* str.encode("utf-8") *)
encode_utf8(text) == [i \in 1..Len(text) |-> Rank(text[i])]

(* hashlib.sha256(data).hexdigest(): a fixed function of the bytes, of     *)
(* reduced width, that depends on their order                              *)
RECURSIVE Power31(_)
Power31(e) ==
    IF e = 0 THEN 1
    ELSE LET half == Power31(e \div 2)
         IN  (((half * half) % 32749) * (IF e % 2 = 1 THEN 31 ELSE 1)) % 32749

(* the polynomial sum of data[lo..hi] with weights 31^(hi-i), modulo 32749 *)
RECURSIVE Compress(_, _, _)
Compress(data, lo, hi) ==
    IF lo > hi THEN 0
    ELSE IF lo = hi THEN data[lo] % 32749
    ELSE LET mid == (lo + hi) \div 2
         IN  (Compress(data, lo, mid) * Power31(hi - mid) +
              Compress(data, mid + 1, hi)) % 32749

sha256_hexdigest(data) == ToString(Compress(<<7>> \o data, 1, Len(data) + 1))

----------------------------------------------------------------------------
(* compile_validator.py: canonical serialization and hash                  *)

validator_canonical_json(obj) == json_dumps(obj, TRUE, ",", ":")

validator_compute_registry_hash(registry, acu_index, dependency_graph) ==
    LET combined == validator_canonical_json(registry) \o
                    validator_canonical_json(acu_index) \o
                    validator_canonical_json(dependency_graph)
    IN  sha256_hexdigest(encode_utf8(combined))

----------------------------------------------------------------------------
(* snapshot_generator.py: canonical serialization and hash                 *)

(* a serialization that keeps each mapping's insertion order *)
snapshot_canonical_json_unsorted(obj) == json_dumps(obj, FALSE, ",", ":")

snapshot_canonical_json(obj) == json_dumps(obj, TRUE, ",", ":")

(* the index serialized ahead of the registry *)
snapshot_compute_registry_hash_reordered(registry, acu_index, dependency_graph) ==
    LET combined == snapshot_canonical_json(acu_index) \o
                    snapshot_canonical_json(registry) \o
                    snapshot_canonical_json(dependency_graph)
    IN  sha256_hexdigest(encode_utf8(combined))

snapshot_compute_registry_hash(registry, acu_index, dependency_graph) ==
    LET combined == snapshot_canonical_json(registry) \o
                    snapshot_canonical_json(acu_index) \o
                    snapshot_canonical_json(dependency_graph)
    IN  sha256_hexdigest(encode_utf8(combined))

----------------------------------------------------------------------------
(* compile_validator.py: freeze enforcement                                *)

NoError == [msg |-> "", file |-> ""]

Error(msg) == [msg |-> msg, file |-> ""]

protected_files ==
    << "03_canonical_registry/global_registry.json",
       "03_canonical_registry/acu_index.json",
       "03_canonical_registry/dependency_graph.json",
       "03_canonical_registry/version_manifest.json" >>

(* result.stdout.strip().split("\n") of the lines git printed: the split   *)
(* of the empty string is the one-element list [""]                        *)
changed_files(stdout) == IF stdout = <<>> THEN <<"">> ELSE stdout

InList(x, list) == \E i \in 1..Len(list) : list[i] = x

(* the index file left out of the protected list *)
enforce_freeze_mode_unlisted(manifest, diff) ==
    IF ~Truthy(GetOrFalse(manifest, "freeze_mode"))
    THEN [exits |-> FALSE, error |-> NoError]
    ELSE IF diff.raises
    THEN [exits |-> TRUE, error |-> Error("Freeze mode: unable to inspect git diff.")]
    ELSE LET changed == changed_files(diff.stdout)
             hits == {i \in {1, 3, 4} : InList(protected_files[i], changed)}
         IN  IF hits = {}
             THEN [exits |-> FALSE, error |-> NoError]
             ELSE LET first == CHOOSE i \in hits : \A j \in hits : i <= j
                  IN  [exits |-> TRUE,
                       error |-> [msg |-> "Freeze mode active: modification detected in",
                                  file |-> protected_files[first]]]

(* enforce_freeze_mode(manifest) when subprocess.run behaves as diff says: *)
(* diff.raises - the call raises (no git executable);                      *)
(* otherwise it returns diff.returncode and diff.stdout, and check=False   *)
(* lets every return code through.                                         *)
(* The result says whether the process exits and with which error.         *)
enforce_freeze_mode(manifest, diff) ==
    IF ~Truthy(GetOrFalse(manifest, "freeze_mode"))
    THEN [exits |-> FALSE, error |-> NoError]
    ELSE IF diff.raises
    THEN [exits |-> TRUE, error |-> Error("Freeze mode: unable to inspect git diff.")]
    ELSE LET changed == changed_files(diff.stdout)
             hits == {i \in 1..Len(protected_files) : InList(protected_files[i], changed)}
         IN  IF hits = {}
             THEN [exits |-> FALSE, error |-> NoError]
             ELSE LET first == CHOOSE i \in hits : \A j \in hits : i <= j
                  IN  [exits |-> TRUE,
                       error |-> [msg |-> "Freeze mode active: modification detected in",
                                  file |-> protected_files[first]]]

----------------------------------------------------------------------------
(* compile_validator.py: structural validation                             *)

(* only ids missing from the index are looked for *)
validate_acu_completeness_subset(registry, acu_index) ==
    LET units == Elems(Item(registry, "ac_units"))
        registry_ids == {Item(units[i], "acu_id") : i \in 1..Len(units)}
        index_ids == {JStr(key) : key \in Keys(acu_index)}
    IN  IF ~(registry_ids \subseteq index_ids)
        THEN [valid |-> FALSE, error |-> Error("ACU ID mismatch between registry and index.")]
        ELSE IF JNum(Cardinality(registry_ids)) # Get(registry, "total_acu_count")
        THEN [valid |-> FALSE, error |-> Error("ACU count mismatch in registry metadata.")]
        ELSE [valid |-> TRUE, error |-> NoError]

validate_acu_completeness(registry, acu_index) ==
    LET units == Elems(Item(registry, "ac_units"))
        registry_ids == {Item(units[i], "acu_id") : i \in 1..Len(units)}
        index_ids == {JStr(key) : key \in Keys(acu_index)}
    IN  IF registry_ids # index_ids
        THEN [valid |-> FALSE, error |-> Error("ACU ID mismatch between registry and index.")]
        ELSE IF JNum(Cardinality(registry_ids)) # Get(registry, "total_acu_count")
        THEN [valid |-> FALSE, error |-> Error("ACU count mismatch in registry metadata.")]
        ELSE [valid |-> TRUE, error |-> NoError]

(* the two modes compared with each other only *)
validate_operating_mode_equal(manifest, registry) ==
    IF Item(manifest, "operating_mode") # Item(registry, "operating_mode")
    THEN [valid |-> FALSE, error |-> Error("Operating mode mismatch in manifest.")]
    ELSE [valid |-> TRUE, error |-> NoError]

validate_operating_mode(manifest, registry) ==
    IF Item(manifest, "operating_mode") # JStr("STRUCTURAL_ONLY")
    THEN [valid |-> FALSE, error |-> Error("Operating mode mismatch in manifest.")]
    ELSE IF Item(registry, "operating_mode") # JStr("STRUCTURAL_ONLY")
    THEN [valid |-> FALSE, error |-> Error("Operating mode mismatch in registry.")]
    ELSE [valid |-> TRUE, error |-> NoError]

(* the "to" ends of the edges that leave node, in edge order: adj[node]    *)
RECURSIVE adj_of(_, _)
adj_of(node, edges) ==
    IF edges = <<>> THEN <<>>
    ELSE (IF Item(Head(edges), "from") = node
          THEN <<Item(Head(edges), "to")>> ELSE <<>>) \o adj_of(node, Tail(edges))

(* the number of edges that enter node: in_degree[node] after the edge loop *)
in_degree_of(node, edges) ==
    Cardinality({i \in 1..Len(edges) : Item(edges[i], "to") = node})

(* only the first node without incoming edges seeds the queue *)
zero_in_degree_first(iter, in_degree) ==
    LET zeros == {i \in 1..Len(iter) : in_degree[iter[i]] = 0}
    IN  IF zeros = {} THEN <<>>
        ELSE <<iter[CHOOSE i \in zeros : \A j \in zeros : i <= j]>>

(* [node for node in nodes if in_degree[node] == 0], nodes iterated as iter *)
RECURSIVE zero_in_degree(_, _)
zero_in_degree(iter, in_degree) ==
    IF iter = <<>> THEN <<>>
    ELSE (IF in_degree[Head(iter)] = 0 THEN <<Head(iter)>> ELSE <<>>) \o
         zero_in_degree(Tail(iter), in_degree)

(* every neighbour appended, whatever its count after the decrement *)
RECURSIVE kahn_relax_requeue(_, _)
kahn_relax_requeue(k, neighbors) ==
    IF neighbors = <<>> THEN k
    ELSE LET neighbor == Head(neighbors)
             d == k.in_degree[neighbor] - 1
         IN  kahn_relax_requeue([k EXCEPT !.in_degree[neighbor] = d,
                                          !.queue = Append(@, neighbor)],
                                Tail(neighbors))

(* for neighbor in adj[node]: decrement, append when the count reaches zero *)
RECURSIVE kahn_relax(_, _)
kahn_relax(k, neighbors) ==
    IF neighbors = <<>> THEN k
    ELSE LET neighbor == Head(neighbors)
             d == k.in_degree[neighbor] - 1
         IN  kahn_relax([k EXCEPT !.in_degree[neighbor] = d,
                                  !.queue = IF d = 0 THEN Append(@, neighbor) ELSE @],
                        Tail(neighbors))

(* one pass of the while loop: popleft, count, relax the neighbours *)
kahn_step(k, adj) ==
    kahn_relax([k EXCEPT !.queue = Tail(@), !.visited = @ + 1], adj[Head(k.queue)])

RECURSIVE kahn_loop(_, _)
kahn_loop(k, adj) == IF k.queue = <<>> THEN k ELSE kahn_loop(kahn_step(k, adj), adj)

(* validate_dag(dependency_graph); iter is the order in which this process *)
(* iterates the set nodes                                                  *)
validate_dag(dependency_graph, iter) ==
    LET nodes == {iter[i] : i \in 1..Len(iter)}
        edges == Elems(Item(dependency_graph, "edges"))
    IN  IF \E i \in 1..Len(edges) :
               Item(edges[i], "from") \notin nodes \/ Item(edges[i], "to") \notin nodes
        THEN [valid |-> FALSE, error |-> Error("Dependency graph contains undefined nodes.")]
        ELSE LET in_degree == [node \in nodes |-> in_degree_of(node, edges)]
                 adj == [node \in nodes |-> adj_of(node, edges)]
                 k == kahn_loop([queue |-> zero_in_degree(iter, in_degree),
                                 visited |-> 0,
                                 in_degree |-> in_degree], adj)
             IN  IF k.visited # Cardinality(nodes)
                 THEN [valid |-> FALSE, error |-> Error("Dependency graph contains a cycle.")]
                 ELSE [valid |-> TRUE, error |-> NoError]

(* set(dependency_graph["nodes"]) *)
node_set(dependency_graph) ==
    LET listed == Elems(Item(dependency_graph, "nodes"))
    IN  {listed[i] : i \in 1..Len(listed)}

(* the orders in which a process may iterate a set *)
IterOrders(set) ==
    {iter \in [1..Cardinality(set) -> set] : \A x \in set : \E i \in DOMAIN iter : iter[i] = x}

----------------------------------------------------------------------------
(* Documents the runs are given                                            *)

MaxUnits == 2

MaxEdges == 3

MaxVersions == 2

AcuIds == {"A", "B"}

NodeIds == {"A", "B", "C"}

VersionNames == <<"1", "2", "3", "4">>

SeqsUpTo(set, len) == UNION {[1..m -> set] : m \in 0..len}

(* a path that does not exist *)
NoFile == [t |-> "nofile", s |-> "", n |-> 0, c |-> <<>>]

(* a field a document leaves out *)
Absent == [t |-> "absent", s |-> "", n |-> 0, c |-> <<>>]

Fields(pairs) == SelectSeq(pairs, LAMBDA p : p.v # Absent)

RegistryDoc(units, count, mode) ==
    JObj(<< KV("ac_units",
               JArr([i \in 1..Len(units) |-> JObj(<<KV("acu_id", JStr(units[i]))>>)])),
            KV("total_acu_count", JNum(count)),
            KV("operating_mode", JStr(mode)) >>)

IndexDoc(keys) ==
    LET order == SortKeys(keys)
    IN  JObj([i \in 1..Len(order) |-> KV(order[i], JStr(order[i]))])

GraphDoc(nodes, edges) ==
    JObj(<< KV("nodes", JArr([i \in 1..Len(nodes) |-> JStr(nodes[i])])),
            KV("edges", JArr([i \in 1..Len(edges) |->
                                 JObj(<< KV("from", JStr(edges[i][1])),
                                         KV("to", JStr(edges[i][2])) >>)])) >>)

ManifestDoc(version, hash, mode, freeze) ==
    JObj(Fields(<< KV("registry_version", version),
                   KV("registry_hash", hash),
                   KV("operating_mode", JStr(mode)),
                   KV("freeze_mode", JBool(freeze)) >>))

Modes == {"STRUCTURAL_ONLY", "OTHER"}

(* what subprocess.run(["git", "diff", "--name-only", "origin/main"]) does *)
Diff(raises, returncode, stdout) ==
    [raises |-> raises, returncode |-> returncode, stdout |-> stdout]

DiffClean == Diff(FALSE, 0, <<>>)

Diffs ==
    { DiffClean,
      Diff(TRUE, 0, <<>>),
      Diff(FALSE, 128, <<>>),
      Diff(FALSE, 0, <<"README.md">>),
      Diff(FALSE, 0, <<"README.md", protected_files[2]>>),
      Diff(FALSE, 1, <<protected_files[3]>>),
      Diff(FALSE, 0, <<protected_files[4], protected_files[1]>>) }

FileNames == {"registry", "acu_index", "dependency_graph", "manifest"}

Versions == {JStr(VersionNames[i]) : i \in 1..MaxVersions}

(* registry, index and graph the snapshot generator is run on: a sound     *)
(* set and one whose graph has a cycle                                     *)
SnapTriples ==
    LET registry == RegistryDoc(<<"A", "B">>, 2, "STRUCTURAL_ONLY")
    IN  { [registry |-> registry, acu_index |-> IndexDoc({"A", "B"}),
           dependency_graph |-> GraphDoc(<<"A", "B">>, << <<"A", "B">> >>)],
          [registry |-> registry, acu_index |-> IndexDoc({"A", "B"}),
           dependency_graph |-> GraphDoc(<<"A", "B">>, << <<"A", "B">>, <<"B", "A">> >>)] }

SnapHashes ==
    {validator_compute_registry_hash(t.registry, t.acu_index, t.dependency_graph) :
        t \in SnapTriples}

(* manifests of the snapshot generator, which never reads freeze_mode *)
SnapManifests ==
    {ManifestDoc(version, hash, mode, FALSE) :
        version \in Versions \cup {JNum(1), JStr(""), Absent},
        hash \in {JStr(h) : h \in SnapHashes} \cup {JStr(""), Absent},
        mode \in Modes}

WithManifest(t, manifest) ==
    [registry |-> t.registry, acu_index |-> t.acu_index,
     dependency_graph |-> t.dependency_graph, manifest |-> manifest]

SnapInputs ==
    LET whole == {WithManifest(t, m) : t \in SnapTriples, m \in SnapManifests}
        base == CHOOSE f \in whole : Truthy(Get(f.manifest, "registry_version"))
    IN  whole \cup {[base EXCEPT ![name] = NoFile] : name \in FileNames}

SnapDiffs == {DiffClean}

----------------------------------------------------------------------------
(* State                                                                   *)
(*   files    the four canonical documents on disk                         *)
(*   gitdiff  what the git diff against origin/main does                   *)
(*   rolling  snapshots/current_snapshot.json                              *)
(*   archive  snapshots/registry_<version>.json, by <version>              *)
(*   val      the validator process                                        *)
(*   snap     the snapshot generator processes                             *)

Procs == {"p1", "p2"}

ArchiveNames == {VersionNames[i] : i \in 1..MaxVersions}

ValIdle ==
    [pc |-> "idle", status |-> "", error |-> NoError, exit |-> 0,
     evaluated |-> <<>>, computed_hash |-> ""]

SnapIdle == [pc |-> "idle", exit |-> 0, message |-> "", computed_hash |-> ""]

Quiet == val.pc \in {"idle", "done"} /\ \A p \in Procs : snap[p].pc \in {"idle", "done"}

----------------------------------------------------------------------------
(* snapshot_generator.py: main                                             *)

MsgLocked == "Snapshot for version already exists. Immutable lock enforced."

MsgSuccess == "Snapshot generated successfully."

(* str(registry_version), the part of versioned_path that varies *)
versioned_path(registry_version) ==
    IF registry_version.t = "str" THEN registry_version.s
    ELSE ToString(registry_version.n)

SnapExit(p, code, message) ==
    snap' = [snap EXCEPT ![p].pc = "done", ![p].exit = code, ![p].message = message]

(* lines 77-87: load registry, index and graph, hash them, load manifest *)
S_Load(p) ==
    /\ snap[p].pc = "idle"
    /\ IF \E name \in {"registry", "acu_index", "dependency_graph"} : files[name] = NoFile
       THEN SnapExit(p, 1, "Missing required file")
       ELSE IF files.manifest = NoFile
       THEN snap' = [snap EXCEPT
                ![p].pc = "done", ![p].exit = 1, ![p].message = "Missing required file",
                ![p].computed_hash = snapshot_compute_registry_hash(
                    files.registry, files.acu_index, files.dependency_graph)]
       ELSE snap' = [snap EXCEPT
                ![p].pc = "loaded",
                ![p].computed_hash = snapshot_compute_registry_hash(
                    files.registry, files.acu_index, files.dependency_graph)]
    /\ UNCHANGED <<files, gitdiff, rolling, archive, val>>

(* the manifest checks reporting without stopping the run *)
S_Validate_Lenient(p) ==
    /\ snap[p].pc = "loaded"
    /\ snap' = [snap EXCEPT ![p].pc = "verified"]
    /\ UNCHANGED <<files, gitdiff, rolling, archive, val>>

(* lines 89-103: mandatory manifest fields, hash consistency *)
S_Validate(p) ==
    /\ snap[p].pc = "loaded"
    /\ LET registry_version == Get(files.manifest, "registry_version")
           manifest_hash == Get(files.manifest, "registry_hash")
       IN  IF ~Truthy(registry_version) \/ ~Truthy(manifest_hash)
           THEN SnapExit(p, 1, "Manifest missing registry_version or registry_hash. Aborting.")
           ELSE IF JStr(snap[p].computed_hash) # manifest_hash
           THEN SnapExit(p, 1, "Registry hash does not match manifest registry_hash. Aborting.")
           ELSE snap' = [snap EXCEPT ![p].pc = "verified"]
    /\ UNCHANGED <<files, gitdiff, rolling, archive, val>>

(* the rolling snapshot given the registry's operating_mode *)
S_WriteRolling_RegistryMode(p) ==
    /\ snap[p].pc = "verified"
    /\ rolling' = JObj(<< KV("registry_hash", JStr(snap[p].computed_hash)),
                          KV("operating_mode", Get(files.registry, "operating_mode")) >>)
    /\ snap' = [snap EXCEPT ![p].pc = "rolled"]
    /\ UNCHANGED <<files, gitdiff, archive, val>>

(* lines 105-115: the rolling snapshot, overwritten *)
S_WriteRolling(p) ==
    /\ snap[p].pc = "verified"
    /\ rolling' = JObj(<< KV("registry_hash", JStr(snap[p].computed_hash)),
                          KV("operating_mode", Get(files.manifest, "operating_mode")) >>)
    /\ snap' = [snap EXCEPT ![p].pc = "rolled"]
    /\ UNCHANGED <<files, gitdiff, archive, val>>

(* the existence check left out: every verified run writes the archive *)
S_CheckExists_Overwrite(p) ==
    /\ snap[p].pc = "rolled"
    /\ snap' = [snap EXCEPT ![p].pc = "unlocked"]
    /\ UNCHANGED <<files, gitdiff, rolling, archive, val>>

(* the refusal made conditional on the content: an identical archive passes *)
S_CheckExists_IfDifferent(p) ==
    /\ snap[p].pc = "rolled"
    /\ LET registry_version == Get(files.manifest, "registry_version")
           path == versioned_path(registry_version)
           same == JObj(<< KV("registry_version", registry_version),
                           KV("registry_hash", JStr(snap[p].computed_hash)) >>)
       IN  IF archive[path] # NoFile /\ archive[path] # same
           THEN SnapExit(p, 1, MsgLocked)
           ELSE snap' = [snap EXCEPT ![p].pc = "unlocked"]
    /\ UNCHANGED <<files, gitdiff, rolling, archive, val>>

(* the existence check made on a path that leaves the version out *)
S_CheckExists_Unversioned(p) ==
    /\ snap[p].pc = "rolled"
    /\ IF archive[VersionNames[1]] # NoFile
       THEN SnapExit(p, 1, MsgLocked)
       ELSE snap' = [snap EXCEPT ![p].pc = "unlocked"]
    /\ UNCHANGED <<files, gitdiff, rolling, archive, val>>

(* lines 118-122: the immutable lock *)
S_CheckExists(p) ==
    /\ snap[p].pc = "rolled"
    /\ LET path == versioned_path(Get(files.manifest, "registry_version"))
       IN  IF archive[path] # NoFile
           THEN SnapExit(p, 1, MsgLocked)
           ELSE snap' = [snap EXCEPT ![p].pc = "unlocked"]
    /\ UNCHANGED <<files, gitdiff, rolling, archive, val>>

(* the archival snapshot recording the version as it appears in the path *)
S_WriteArchive_PathVersion(p) ==
    /\ snap[p].pc = "unlocked"
    /\ LET registry_version == Get(files.manifest, "registry_version")
       IN  archive' = [archive EXCEPT ![versioned_path(registry_version)] =
                          JObj(<< KV("registry_version", JStr(versioned_path(registry_version))),
                                  KV("registry_hash", JStr(snap[p].computed_hash)) >>)]
    /\ SnapExit(p, 0, MsgSuccess)
    /\ UNCHANGED <<files, gitdiff, rolling, val>>

(* lines 124-133: the archival snapshot *)
S_WriteArchive(p) ==
    /\ snap[p].pc = "unlocked"
    /\ LET registry_version == Get(files.manifest, "registry_version")
       IN  archive' = [archive EXCEPT ![versioned_path(registry_version)] =
                          JObj(<< KV("registry_version", registry_version),
                                  KV("registry_hash", JStr(snap[p].computed_hash)) >>)]
    /\ SnapExit(p, 0, MsgSuccess)
    /\ UNCHANGED <<files, gitdiff, rolling, val>>

(* between runs the upstream producers replace the documents and the       *)
(* working tree changes; the processes of finished runs are gone           *)
Produce ==
    /\ Quiet
    /\ \E p \in Procs : snap[p].pc = "done"
    /\ files' \in SnapInputs
    /\ gitdiff' \in SnapDiffs
    /\ snap' = [p \in Procs |-> SnapIdle]
    /\ val' = ValIdle
    /\ UNCHANGED <<rolling, archive>>

Init ==
    /\ files \in SnapInputs
    /\ gitdiff \in SnapDiffs
    /\ rolling = NoFile
    /\ archive = [name \in ArchiveNames |-> NoFile]
    /\ val = ValIdle
    /\ snap = [p \in Procs |-> SnapIdle]

(* runs executed one at a time: one process, run to completion *)
Next ==
    \/ S_Load("p1")
    \/ S_Validate("p1")
    \/ S_WriteRolling("p1")
    \/ S_CheckExists("p1")
    \/ S_WriteArchive("p1")
    \/ Produce

Spec == Init /\ [][Next]_vars

----------------------------------------------------------------------------
(* compile_validator.py: main                                              *)

ValInvalid(error, checked) ==
    val' = [val EXCEPT !.pc = "done", !.status = "INVALID", !.error = error,
                       !.exit = 1, !.evaluated = checked]

(* lines 151-158: load the four documents *)
V_Load ==
    /\ val.pc = "idle"
    /\ IF \E name \in FileNames : files[name] = NoFile
       THEN ValInvalid(Error("File load failure"), val.evaluated)
       ELSE val' = [val EXCEPT !.pc = "freeze"]
    /\ UNCHANGED <<files, gitdiff, rolling, archive, snap>>

(* line 161 *)
V_Freeze ==
    /\ val.pc = "freeze"
    /\ LET r == enforce_freeze_mode(files.manifest, gitdiff)
           checked == Append(val.evaluated, "freeze")
       IN  IF r.exits
           THEN ValInvalid(r.error, checked)
           ELSE val' = [val EXCEPT !.pc = "completeness", !.evaluated = checked]
    /\ UNCHANGED <<files, gitdiff, rolling, archive, snap>>

(* lines 163-166 *)
V_Completeness ==
    /\ val.pc = "completeness"
    /\ LET r == validate_acu_completeness(files.registry, files.acu_index)
           checked == Append(val.evaluated, "completeness")
       IN  IF ~r.valid
           THEN ValInvalid(r.error, checked)
           ELSE val' = [val EXCEPT !.pc = "dag", !.evaluated = checked]
    /\ UNCHANGED <<files, gitdiff, rolling, archive, snap>>

(* the graph failure not acted on: the run goes on to the mode check *)
V_Dag_Continue ==
    /\ val.pc = "dag"
    /\ val' = [val EXCEPT !.pc = "mode", !.evaluated = Append(val.evaluated, "dag")]
    /\ UNCHANGED <<files, gitdiff, rolling, archive, snap>>

(* lines 168-171 *)
V_Dag ==
    /\ val.pc = "dag"
    /\ \E iter \in IterOrders(node_set(files.dependency_graph)) :
          LET r == validate_dag(files.dependency_graph, iter)
              checked == Append(val.evaluated, "dag")
          IN  IF ~r.valid
              THEN ValInvalid(r.error, checked)
              ELSE val' = [val EXCEPT !.pc = "mode", !.evaluated = checked]
    /\ UNCHANGED <<files, gitdiff, rolling, archive, snap>>

(* lines 173-176 *)
V_Mode ==
    /\ val.pc = "mode"
    /\ LET r == validate_operating_mode(files.manifest, files.registry)
           checked == Append(val.evaluated, "mode")
       IN  IF ~r.valid
           THEN ValInvalid(r.error, checked)
           ELSE val' = [val EXCEPT !.pc = "hash", !.evaluated = checked]
    /\ UNCHANGED <<files, gitdiff, rolling, archive, snap>>

(* lines 178-190 *)
V_Hash ==
    /\ val.pc = "hash"
    /\ LET computed_hash == validator_compute_registry_hash(
                                files.registry, files.acu_index, files.dependency_graph)
           checked == Append(val.evaluated, "hash")
       IN  IF JStr(computed_hash) # Item(files.manifest, "registry_hash")
           THEN val' = [val EXCEPT !.pc = "done", !.status = "INVALID",
                                   !.error = Error("Registry hash mismatch."),
                                   !.exit = 1, !.evaluated = checked,
                                   !.computed_hash = computed_hash]
           ELSE val' = [val EXCEPT !.pc = "done", !.status = "VALID", !.exit = 0,
                                   !.evaluated = checked,
                                   !.computed_hash = computed_hash]
    /\ UNCHANGED <<files, gitdiff, rolling, archive, snap>>

(* documents the validator is run on *)
ValRegistries ==
    {RegistryDoc(units, count, mode) :
        units \in SeqsUpTo(AcuIds, MaxUnits), count \in 0..MaxUnits, mode \in Modes}

ValIndexes == {IndexDoc(keys) : keys \in SUBSET AcuIds}

(* an acyclic graph, one with a cycle, one with an edge to an undeclared node *)
ValGraphs ==
    { GraphDoc(<<"A", "B">>, << <<"A", "B">> >>),
      GraphDoc(<<"A", "B">>, << <<"A", "B">>, <<"B", "A">> >>),
      GraphDoc(<<"A", "B">>, << <<"A", "C">> >>) }

(* every registry, index and graph given, under each manifest that states  *)
(* the right or a wrong hash, and the cases of one document missing        *)
ValInputsOf(registries, indexes, graphs) ==
    LET triples == {[registry |-> r, acu_index |-> x, dependency_graph |-> g] :
                       r \in registries, x \in indexes, g \in graphs}
        whole == UNION {{WithManifest(t, ManifestDoc(JStr("1"), hash, mode, freeze)) :
                            hash \in {JStr(validator_compute_registry_hash(
                                          t.registry, t.acu_index, t.dependency_graph)),
                                      JStr("0")},
                            mode \in Modes, freeze \in BOOLEAN} : t \in triples}
        base == CHOOSE f \in whole : TRUE
    IN  whole \cup {[base EXCEPT ![name] = NoFile] : name \in FileNames}

InitValidator ==
    /\ files \in ValInputsOf(ValRegistries, ValIndexes, ValGraphs)
    /\ gitdiff \in Diffs
    /\ Truthy(GetOrFalse(files.manifest, "freeze_mode")) \/ gitdiff = DiffClean
    /\ rolling = NoFile
    /\ archive = [name \in ArchiveNames |-> NoFile]
    /\ val = ValIdle
    /\ snap = [p \in Procs |-> SnapIdle]

NextValidator ==
    \/ V_Load
    \/ V_Freeze
    \/ V_Completeness
    \/ V_Dag
    \/ V_Mode
    \/ V_Hash

SpecValidator == InitValidator /\ [][NextValidator]_vars

----------------------------------------------------------------------------
(* Properties of the snapshot generator, runs executed one at a time       *)

(* what a run of p would write as the archival snapshot *)
ArchivalOf(p) ==
    JObj(<< KV("registry_version", Get(files.manifest, "registry_version")),
            KV("registry_hash", JStr(snap[p].computed_hash)) >>)

(* the archive name of the version the manifest on disk names *)
ManifestPath == versioned_path(Get(files.manifest, "registry_version"))

NamesPublished ==
    /\ files.manifest # NoFile
    /\ Truthy(Get(files.manifest, "registry_version"))
    /\ archive[ManifestPath] # NoFile

(* C1: once the archival snapshot file of a version exists, no later run   *)
(* changes its content.                                                    *)
ArchiveNeverOverwritten ==
    [][\A name \in ArchiveNames :
          archive[name] # NoFile => archive'[name] = archive[name]]_vars

(* a run was refused that would have written other content over an         *)
(* existing archival snapshot                                              *)
RefusedDifferentContent ==
    \E p \in Procs :
        /\ snap[p].pc = "done" /\ snap[p].message = MsgLocked
        /\ archive[ManifestPath] # NoFile
        /\ archive[ManifestPath] # ArchivalOf(p)

(* C2: a run whose manifest names a version that already has an archival   *)
(* snapshot ends in failure; when its hash has verified, the failure is    *)
(* the immutability refusal, whatever the content it would write.          *)
RepublishRefused ==
    [][\A p \in Procs :
          (NamesPublished /\ snap[p].pc # "done" /\ snap'[p].pc = "done")
              => /\ snap'[p].exit = 1
                 /\ snap[p].pc = "rolled" => snap'[p].message = MsgLocked]_vars

(* a run with a verified hash was refused although the archival snapshot   *)
(* it would write is identical to the existing one                         *)
RefusedIdenticalContent ==
    \E p \in Procs :
        /\ snap[p].pc = "done" /\ snap[p].exit = 1 /\ snap[p].message = MsgLocked
        /\ archive[ManifestPath] = ArchivalOf(p)

(* the documents on disk pass the validator's freeze guard, completeness,  *)
(* acyclicity and mode checks and its hash comparison                      *)
AllChecksPass ==
    /\ ~enforce_freeze_mode(files.manifest, gitdiff).exits
    /\ validate_acu_completeness(files.registry, files.acu_index).valid
    /\ \A iter \in IterOrders(node_set(files.dependency_graph)) :
          validate_dag(files.dependency_graph, iter).valid
    /\ validate_operating_mode(files.manifest, files.registry).valid
    /\ JStr(validator_compute_registry_hash(
                files.registry, files.acu_index, files.dependency_graph))
          = Get(files.manifest, "registry_hash")

(* the run of p has written the rolling snapshot *)
WroteSnapshot(p) ==
    \/ snap[p].pc \in {"rolled", "unlocked"}
    \/ snap[p].pc = "done" /\ snap[p].message \in {MsgLocked, MsgSuccess}

(* C3: whenever a rolling or archival snapshot is written, the documents   *)
(* the run loaded pass the freeze guard, the completeness, acyclicity and  *)
(* mode checks and the hash comparison.                                    *)
SnapshotOnlyAfterAllChecks ==
    \A p \in Procs : WroteSnapshot(p) => AllChecksPass

----------------------------------------------------------------------------
(* Properties of the validator                                             *)

Loaded == \A name \in FileNames : files[name] # NoFile

FreezeOn == Loaded /\ Truthy(GetOrFalse(files.manifest, "freeze_mode"))

(* the change-set provider cannot answer: the call raises, or git exits    *)
(* with an error and prints no path                                        *)
ProviderFailed ==
    gitdiff.raises \/ (gitdiff.returncode # 0 /\ gitdiff.stdout = <<>>)

(* the paths of the protected list that git reported as changed *)
ProtectedChanged ==
    IF gitdiff.raises THEN {}
    ELSE {protected_files[i] : i \in 1..Len(protected_files)} \cap
         {gitdiff.stdout[i] : i \in 1..Len(gitdiff.stdout)}

(* C4: with freeze_mode on and a provider that cannot answer, the run ends *)
(* INVALID with a failure exit, never with the VALID verdict.              *)
FreezeFailClosed ==
    (FreezeOn /\ ProviderFailed /\ val.pc = "done") =>
        val.status = "INVALID" /\ val.exit = 1

(* C5: with freeze_mode on and a protected path in the change-set, the run *)
(* ends INVALID with the freeze violation naming a changed protected path, *)
(* and no structural check nor the hash comparison is evaluated.           *)
FreezeViolationFirst ==
    (FreezeOn /\ ProtectedChanged # {}) =>
        /\ val.pc \in {"idle", "freeze", "done"}
        /\ val.pc = "done" =>
              /\ val.status = "INVALID" /\ val.exit = 1
              /\ val.error.msg = "Freeze mode active: modification detected in"
              /\ val.error.file \in ProtectedChanged
              /\ val.evaluated = <<"freeze">>

(* the four checks that follow the freeze guard, each on the documents on  *)
(* disk, in the order of main                                              *)
CheckNames == <<"completeness", "dag", "mode", "hash">>

CheckResult(i) ==
    CASE i = 1 -> validate_acu_completeness(files.registry, files.acu_index)
      [] i = 2 -> validate_dag(files.dependency_graph,
                               CHOOSE iter \in IterOrders(node_set(files.dependency_graph)) : TRUE)
      [] i = 3 -> validate_operating_mode(files.manifest, files.registry)
      [] OTHER -> IF JStr(validator_compute_registry_hash(
                              files.registry, files.acu_index, files.dependency_graph))
                        = Item(files.manifest, "registry_hash")
                  THEN [valid |-> TRUE, error |-> NoError]
                  ELSE [valid |-> FALSE, error |-> Error("Registry hash mismatch.")]

Failing == {i \in 1..4 : ~CheckResult(i).valid}

(* the freeze violation was reported although every later check passes *)
FreezeViolationOnSoundRegistry ==
    /\ FreezeOn /\ ProtectedChanged # {}
    /\ val.pc = "done" /\ val.evaluated = <<"freeze">>
    /\ Failing = {}

(* C6: past the freeze guard the run evaluates completeness, acyclicity,   *)
(* mode and hash in this order up to the first that fails, reports that    *)
(* check's error alone, and emits VALID with exit 0 iff all four pass.     *)
FirstFailureReported ==
    (Loaded /\ val.pc = "done" /\ ~enforce_freeze_mode(files.manifest, gitdiff).exits) =>
        LET failing == Failing
        IN  IF failing = {}
            THEN /\ val.status = "VALID" /\ val.exit = 0 /\ val.error = NoError
                 /\ val.evaluated = <<"freeze">> \o CheckNames
            ELSE LET first == CHOOSE i \in failing : \A j \in failing : i <= j
                 IN  /\ val.status = "INVALID" /\ val.exit = 1
                     /\ val.error = CheckResult(first).error
                     /\ val.evaluated = <<"freeze">> \o SubSeq(CheckNames, 1, first)

(* a run stopped at the completeness check although the graph check and    *)
(* the hash comparison would fail too                                      *)
StoppedAtFirstOfSeveral ==
    /\ Loaded /\ val.pc = "done"
    /\ val.evaluated = <<"freeze", "completeness">>
    /\ {1, 2, 4} \subseteq Failing

(* the records' ids, the index keys and the declared count, read directly *)
RecordIds ==
    LET units == Elems(Item(files.registry, "ac_units"))
    IN  [i \in 1..Len(units) |-> Item(units[i], "acu_id").s]

RecordIdSet == {RecordIds[i] : i \in 1..Len(RecordIds)}

IndexKeys == Keys(files.acu_index)

TotalCount == Item(files.registry, "total_acu_count").n

CompletenessDone == Loaded /\ "completeness" \in {val.evaluated[i] : i \in 1..Len(val.evaluated)}

CompletenessFailed ==
    CompletenessDone /\ val.pc = "done" /\ val.evaluated = <<"freeze", "completeness">>

(* C8: validate_acu_completeness succeeds iff the registry's id set equals *)
(* the index's key set and the number of distinct registry ids equals      *)
(* total_acu_count; an id only in the index, an id only in the registry    *)
(* and a count mismatch each make it fail.                                 *)
CompletenessIffSetsAndCount ==
    CompletenessDone =>
        /\ ~CompletenessFailed <=>
              (RecordIdSet = IndexKeys /\ Cardinality(RecordIdSet) = TotalCount)
        /\ CompletenessFailed => val.status = "INVALID" /\ val.exit = 1
        /\ IndexKeys \ RecordIdSet # {} => CompletenessFailed
        /\ RecordIdSet \ IndexKeys # {} => CompletenessFailed
        /\ Cardinality(RecordIdSet) # TotalCount => CompletenessFailed

(* the check failed on an id that only the index has, the count being right *)
FailedOnExtraIndexId ==
    /\ CompletenessFailed
    /\ RecordIdSet \subseteq IndexKeys /\ IndexKeys \ RecordIdSet # {}
    /\ Cardinality(RecordIdSet) = TotalCount

(* C9: whenever the validator emits VALID, records and index entries       *)
(* correspond one to one by id: no two records share an id, every record   *)
(* id is an index key and conversely, and the number of records equals     *)
(* total_acu_count.                                                        *)
ValidMeansIndexedExactlyOnce ==
    (Loaded /\ val.pc = "done" /\ val.status = "VALID") =>
        /\ \A i, j \in 1..Len(RecordIds) : RecordIds[i] = RecordIds[j] => i = j
        /\ RecordIdSet = IndexKeys
        /\ Len(RecordIds) = TotalCount

----------------------------------------------------------------------------
(* validate_dag on its own, over every graph of up to MaxEdges edges       *)

(* the graphs that declare some of ids and have up to len edges between ids *)
GraphsOver(ids, len) ==
    {GraphDoc(SortKeys(nodes), edges) :
        nodes \in SUBSET ids, edges \in SeqsUpTo(ids \X ids, len)}

InitDag ==
    /\ files \in {[registry |-> NoFile, acu_index |-> NoFile,
                   dependency_graph |-> g, manifest |-> NoFile] :
                     g \in GraphsOver(NodeIds, MaxEdges)}
    /\ gitdiff = DiffClean
    /\ rolling = NoFile
    /\ archive = [name \in ArchiveNames |-> NoFile]
    /\ val = ValIdle
    /\ snap = [p \in Procs |-> SnapIdle]

(* valid, error = validate_dag(dependency_graph) *)
D_Validate ==
    /\ val.pc = "idle"
    /\ \E iter \in IterOrders(node_set(files.dependency_graph)) :
          val' = [val EXCEPT !.pc = "done",
                             !.error = validate_dag(files.dependency_graph, iter).error,
                             !.evaluated = <<"dag">>]
    /\ UNCHANGED <<files, gitdiff, rolling, archive, snap>>

NextDag == D_Validate

SpecDag == InitDag /\ [][NextDag]_vars

(* the graph read directly: declared nodes and edges as pairs *)
Declared == {x.s : x \in node_set(files.dependency_graph)}

EdgePairs ==
    LET edges == Elems(Item(files.dependency_graph, "edges"))
    IN  {<<Item(edges[i], "from").s, Item(edges[i], "to").s>> : i \in 1..Len(edges)}

AllDeclared == \A e \in EdgePairs : e[1] \in Declared /\ e[2] \in Declared

(* no directed cycle: the nodes can be ranked so that every edge ascends *)
Acyclic ==
    \E rank \in [NodeIds -> 1..Cardinality(NodeIds)] :
        \A e \in EdgePairs : rank[e[1]] < rank[e[2]]

DagDone == val.pc = "done" /\ val.evaluated = <<"dag">>

(* C7: validate_dag succeeds iff every edge endpoint is declared and the   *)
(* graph has no cycle; it reports undefined nodes exactly when an endpoint *)
(* is undeclared, and otherwise a cycle exactly when one exists.           *)
DagVerdictExact ==
    DagDone =>
        /\ val.error = NoError <=> (AllDeclared /\ Acyclic)
        /\ val.error = Error("Dependency graph contains undefined nodes.") <=> ~AllDeclared
        /\ val.error = Error("Dependency graph contains a cycle.")
              <=> (AllDeclared /\ ~Acyclic)

(* a cycle through three declared nodes, without a self-loop, was reported *)
CycleOfThreeReported ==
    /\ DagDone
    /\ val.error = Error("Dependency graph contains a cycle.")
    /\ Cardinality(EdgePairs) = 3
    /\ \A e \in EdgePairs : e[1] # e[2]
    /\ \A x \in Declared : \E e \in EdgePairs : e[2] = x

----------------------------------------------------------------------------
(* the two compute_registry_hash on the same documents                     *)

HashDocs ==
    { RegistryDoc(<<"A">>, 1, "STRUCTURAL_ONLY"),
      RegistryDoc(<<"B", "A">>, 2, "OTHER"),
      IndexDoc({"A"}),
      IndexDoc({"A", "B"}),
      GraphDoc(<<"A", "B">>, << <<"A", "B">> >>),
      JArr(<<JNum(12), JNull, JBool(TRUE)>>) }

HashInputsOf(docs) ==
    UNION {{[registry |-> r, acu_index |-> x, dependency_graph |-> g,
             manifest |-> ManifestDoc(JStr("1"), hash, "STRUCTURAL_ONLY", FALSE)] :
               hash \in {JStr(validator_compute_registry_hash(r, x, g)), JStr("0")}} :
           r \in docs, x \in docs, g \in docs}

InitHash ==
    /\ files \in HashInputsOf(HashDocs)
    /\ gitdiff = DiffClean
    /\ rolling = NoFile
    /\ archive = [name \in ArchiveNames |-> NoFile]
    /\ val = ValIdle
    /\ snap = [p \in Procs |-> SnapIdle]

(* a validator whose digest also covers the manifest's other fields *)
H_Validator_Circular ==
    /\ val.pc = "idle"
    /\ LET rest == JObj(SelectSeq(files.manifest.c, LAMBDA kv : kv.k # "registry_hash"))
           computed_hash == sha256_hexdigest(encode_utf8(
                                validator_canonical_json(files.registry) \o
                                validator_canonical_json(files.acu_index) \o
                                validator_canonical_json(files.dependency_graph) \o
                                validator_canonical_json(rest)))
       IN  val' = [val EXCEPT
                      !.pc = "done", !.computed_hash = computed_hash,
                      !.evaluated = <<"hash">>,
                      !.status = IF JStr(computed_hash) # Item(files.manifest, "registry_hash")
                                 THEN "INVALID" ELSE "VALID"]
    /\ UNCHANGED <<files, gitdiff, rolling, archive, snap>>

(* compile_validator.py lines 178-187: the hash and its comparison *)
H_Validator ==
    /\ val.pc = "idle"
    /\ LET computed_hash == validator_compute_registry_hash(
                                files.registry, files.acu_index, files.dependency_graph)
       IN  val' = [val EXCEPT
                      !.pc = "done", !.computed_hash = computed_hash,
                      !.evaluated = <<"hash">>,
                      !.status = IF JStr(computed_hash) # Item(files.manifest, "registry_hash")
                                 THEN "INVALID" ELSE "VALID"]
    /\ UNCHANGED <<files, gitdiff, rolling, archive, snap>>

(* snapshot_generator.py lines 81-103: the hash and its comparison *)
H_Snapshot(p) ==
    /\ snap[p].pc = "idle"
    /\ LET computed_hash == snapshot_compute_registry_hash(
                                files.registry, files.acu_index, files.dependency_graph)
       IN  snap' = [snap EXCEPT
                      ![p].computed_hash = computed_hash,
                      ![p].pc = IF JStr(computed_hash) # Get(files.manifest, "registry_hash")
                                THEN "done" ELSE "verified",
                      ![p].exit = IF JStr(computed_hash) # Get(files.manifest, "registry_hash")
                                  THEN 1 ELSE 0]
    /\ UNCHANGED <<files, gitdiff, rolling, archive, val>>

NextHash ==
    \/ H_Validator
    \/ H_Snapshot("p1")

SpecHash == InitHash /\ [][NextHash]_vars

BothHashed == val.pc = "done" /\ snap["p1"].pc \in {"verified", "done"}

(* C10: on the same registry, index and graph both compute_registry_hash   *)
(* return the digest of the canonical serializations concatenated in the   *)
(* order registry, index, graph, and the validator's comparison with the   *)
(* manifest passes iff the snapshot generator's does.                      *)
HashesAgree ==
    BothHashed =>
        /\ val.computed_hash = snap["p1"].computed_hash
        /\ val.computed_hash =
              sha256_hexdigest(encode_utf8(
                  json_dumps(files.registry, TRUE, ",", ":") \o
                  json_dumps(files.acu_index, TRUE, ",", ":") \o
                  json_dumps(files.dependency_graph, TRUE, ",", ":")))
        /\ val.status = "VALID" <=> snap["p1"].pc = "verified"

(* both comparisons passed on three different documents *)
BothVerified ==
    /\ BothHashed /\ val.status = "VALID" /\ snap["p1"].pc = "verified"
    /\ files.registry # files.acu_index
    /\ files.acu_index # files.dependency_graph

----------------------------------------------------------------------------
(* runs on the same registry, index and graph under different manifests    *)

ManifestsFor(registry, acu_index, dependency_graph) ==
    { ManifestDoc(version, hash, mode, FALSE) :
        version \in Versions,
        hash \in {JStr(snapshot_compute_registry_hash(registry, acu_index, dependency_graph)),
                  JStr("0")},
        mode \in Modes }

ManifestInputsOf(docs) ==
    UNION {{[registry |-> r, acu_index |-> x, dependency_graph |-> g, manifest |-> m] :
               m \in ManifestsFor(r, x, g)} :
           r \in docs, x \in docs, g \in docs}

ManifestRunDocs ==
    { RegistryDoc(<<"A", "B">>, 2, "STRUCTURAL_ONLY"),
      IndexDoc({"A", "B"}),
      GraphDoc(<<"A", "B">>, << <<"A", "B">> >>) }

InitManifest ==
    /\ files \in ManifestInputsOf(ManifestRunDocs)
    /\ gitdiff = DiffClean
    /\ rolling = NoFile
    /\ archive = [name \in ArchiveNames |-> NoFile]
    /\ val = ValIdle
    /\ snap = [p \in Procs |-> SnapIdle]

(* the manifest on disk is replaced between two runs; registry, index and  *)
(* graph stay as they are                                                  *)
ReplaceManifest ==
    /\ \E m \in ManifestsFor(files.registry, files.acu_index, files.dependency_graph) :
          /\ m # files.manifest
          /\ files' = [files EXCEPT !.manifest = m]
    /\ UNCHANGED <<gitdiff, rolling, archive, val, snap>>

NextManifest ==
    \/ H_Validator
    \/ H_Snapshot("p1")
    \/ H_Snapshot("p2")
    \/ ReplaceManifest

SpecManifest == InitManifest /\ [][NextManifest]_vars

Hashed(p) == snap[p].pc \in {"verified", "done"}

(* C11: the manifest is no input of the digest: runs of the validator and  *)
(* of the snapshot generator on the same registry, index and graph         *)
(* recompute the same digest whatever manifest each of them found; the     *)
(* manifest only supplies the value the digest is compared with.           *)
DigestIgnoresManifest ==
    /\ \A p \in Procs, q \in Procs :
          (Hashed(p) /\ Hashed(q)) => snap[p].computed_hash = snap[q].computed_hash
    /\ \A p \in Procs :
          (Hashed(p) /\ val.pc = "done") => snap[p].computed_hash = val.computed_hash

(* two snapshot runs and a validator run computed one digest although the  *)
(* manifests they compared it with differed                                *)
SameDigestUnderTwoManifests ==
    /\ snap["p1"].pc = "verified"
    /\ snap["p2"].pc = "done" /\ snap["p2"].exit = 1
    /\ val.pc = "done" /\ val.status = "INVALID"
    /\ snap["p1"].computed_hash = snap["p2"].computed_hash
    /\ snap["p1"].computed_hash = val.computed_hash

----------------------------------------------------------------------------
(* runs on the same documents written with other key insertion orders      *)

InsertionOrders(n) == {f \in [1..n -> 1..n] : \A i \in 1..n, j \in 1..n : f[i] = f[j] => i = j}

KeyOrder(obj) == [i \in 1..Len(obj.c) |-> obj.c[i].k]

(* every value with the same key/value pairs as x at every nesting level:  *)
(* the pairs of a mapping in any insertion order, the elements of an array *)
(* in their order                                                          *)
RECURSIVE Reorderings(_)
Reorderings(x) ==
    IF x.c = <<>> THEN {x}
    ELSE LET n == Len(x.c)
             pool == UNION {{KV(x.c[i].k, v) : v \in Reorderings(x.c[i].v)} : i \in 1..n}
             kids == {cs \in [1..n -> pool] :
                         \A i \in 1..n : /\ cs[i].k = x.c[i].k
                                          /\ cs[i].v \in Reorderings(x.c[i].v)}
             orders == IF x.t = "obj" THEN InsertionOrders(n) ELSE {[i \in 1..n |-> i]}
         IN  {[x EXCEPT !.c = [i \in 1..n |-> cs[pi[i]]]] : cs \in kids, pi \in orders}

JsonInputs ==
    {[registry |-> r, acu_index |-> x, dependency_graph |-> g,
      manifest |-> ManifestDoc(JStr("1"), JStr(validator_compute_registry_hash(r, x, g)),
                               "STRUCTURAL_ONLY", FALSE)] :
        r \in {RegistryDoc(<<"A", "B">>, 2, "STRUCTURAL_ONLY"), RegistryDoc(<<"B">>, 1, "OTHER")},
        x \in {IndexDoc({"A", "B"})},
        g \in {GraphDoc(<<"A", "B">>, << <<"A", "B">> >>),
               GraphDoc(<<"B", "A">>, << <<"B", "A">> >>)}}

InitJson ==
    /\ files \in JsonInputs
    /\ gitdiff = DiffClean
    /\ rolling = NoFile
    /\ archive = [name \in ArchiveNames |-> NoFile]
    /\ val = ValIdle
    /\ snap = [p \in Procs |-> SnapIdle]

(* between the first and the second snapshot run the three documents are   *)
(* written again with the same content in other insertion orders           *)
Reorder ==
    /\ Hashed("p1") /\ snap["p2"].pc = "idle"
    /\ \E r \in Reorderings(files.registry), x \in Reorderings(files.acu_index),
          g \in Reorderings(files.dependency_graph) :
          files' = [files EXCEPT !.registry = r, !.acu_index = x, !.dependency_graph = g]
    /\ UNCHANGED <<gitdiff, rolling, archive, val, snap>>

NextJson ==
    \/ H_Validator
    \/ H_Snapshot("p1")
    \/ H_Snapshot("p2")
    \/ Reorder

SpecJson == InitJson /\ [][NextJson]_vars

(* C12: canonical_json does not depend on key insertion order at any       *)
(* nesting level: documents with the same key/value pairs at every level   *)
(* serialize to the same text in both programs, and every run recomputes   *)
(* the digest the manifest recorded for the documents as first written.    *)
CanonicalIgnoresKeyOrder ==
    /\ \A name \in {"registry", "acu_index", "dependency_graph"} :
          \A d \in Reorderings(files[name]) :
              /\ snapshot_canonical_json(d) = snapshot_canonical_json(files[name])
              /\ validator_canonical_json(d) = validator_canonical_json(files[name])
    /\ \A p \in Procs :
          Hashed(p) => JStr(snap[p].computed_hash) = Get(files.manifest, "registry_hash")
    /\ val.pc = "done" => JStr(val.computed_hash) = Get(files.manifest, "registry_hash")

(* the second run verified documents whose keys, at the top and inside an  *)
(* edge, are in another order than at the first run                        *)
VerifiedAfterReorder ==
    /\ snap["p1"].pc = "verified" /\ snap["p2"].pc = "verified"
    /\ val.pc = "done" /\ val.status = "VALID"
    /\ KeyOrder(files.registry) = <<"total_acu_count", "operating_mode", "ac_units">>
    /\ KeyOrder(Item(files.dependency_graph, "edges").c[1].v) = <<"to", "from">>

----------------------------------------------------------------------------
(* what a snapshot run leaves on disk                                      *)

FieldMissing(field) == Get(files.manifest, field) \in {JNull, JStr("")}

ManifestWellFormed == ~FieldMissing("registry_version") /\ ~FieldMissing("registry_hash")

(* the digest of each registry, index and graph the runs are given *)
SnapDigest ==
    [t \in SnapTriples |->
        snapshot_compute_registry_hash(t.registry, t.acu_index, t.dependency_graph)]

HashVerifies ==
    \E t \in SnapTriples :
        /\ t = [registry |-> files.registry, acu_index |-> files.acu_index,
                dependency_graph |-> files.dependency_graph]
        /\ Get(files.manifest, "registry_hash") = JStr(SnapDigest[t])

(* C13: a snapshot run writes nothing unless the manifest is well-formed   *)
(* and the hash verifies: when registry_version or registry_hash is absent *)
(* or empty, or the recomputed hash differs from the manifest's, no step   *)
(* of the run writes the rolling snapshot or an archival snapshot, and the *)
(* run ends in failure.                                                    *)
NoWriteUnlessVerified ==
    [][ ~(ManifestWellFormed /\ HashVerifies) =>
            /\ rolling' = rolling /\ archive' = archive
            /\ snap'["p1"].pc \notin {"verified", "rolled", "unlocked"}
            /\ (snap["p1"].pc # "done" /\ snap'["p1"].pc = "done") => snap'["p1"].exit = 1
      ]_vars

(* a run refused for a hash that differs, with snapshots of earlier runs   *)
(* on disk                                                                 *)
RefusedMismatchKeepsSnapshots ==
    /\ snap["p1"].pc = "done" /\ snap["p1"].exit = 1
    /\ snap["p1"].message = "Registry hash does not match manifest registry_hash. Aborting."
    /\ rolling # NoFile
    /\ \E name \in ArchiveNames : archive[name] # NoFile

----------------------------------------------------------------------------
(* two snapshot generators started on the same documents                   *)

ConcurrentInputs ==
    LET t == CHOOSE u \in SnapTriples : TRUE
    IN  { WithManifest(t, ManifestDoc(version, hash, "STRUCTURAL_ONLY", FALSE)) :
            version \in Versions,
            hash \in {JStr(SnapDigest[t]), JStr("0")} }

InitConcurrent ==
    /\ files \in ConcurrentInputs
    /\ gitdiff = DiffClean
    /\ rolling = NoFile
    /\ archive = [name \in ArchiveNames |-> NoFile]
    /\ val = ValIdle
    /\ snap = [p \in Procs |-> SnapIdle]

(* a new manifest arrives when no run is in flight *)
ProduceConcurrent ==
    /\ Quiet
    /\ \E p \in Procs : snap[p].pc = "done"
    /\ files' \in ConcurrentInputs
    /\ snap' = [p \in Procs |-> SnapIdle]
    /\ UNCHANGED <<gitdiff, rolling, archive, val>>

(* the steps of the two processes in any interleaving: nothing in main     *)
(* takes a lock or opens the archival file exclusively                     *)
NextConcurrent ==
    \/ S_Load("p1") \/ S_Load("p2")
    \/ S_Validate("p1") \/ S_Validate("p2")
    \/ S_WriteRolling("p1") \/ S_WriteRolling("p2")
    \/ S_CheckExists("p1") \/ S_CheckExists("p2")
    \/ S_WriteArchive("p1") \/ S_WriteArchive("p2")
    \/ ProduceConcurrent

SpecConcurrent == InitConcurrent /\ [][NextConcurrent]_vars

Succeeded(p) == snap[p].pc = "done" /\ snap[p].exit = 0 /\ snap[p].message = MsgSuccess

(* C14: the existence check and the archival write are separate steps, so  *)
(* the write-once guarantee holds only for runs one at a time: a process   *)
(* writes the archival file of a version that already has one only when    *)
(* another process, started on the same manifest, wrote it between this    *)
(* process's check and its write, and then both report success.            *)
OverwriteOnlyWhenInterleaved ==
    [][ \A p \in Procs :
          (snap[p].pc = "unlocked" /\ snap'[p].pc = "done" /\ archive[ManifestPath] # NoFile)
              => /\ \E q \in Procs \ {p} : Succeeded(q)
                 /\ \A q \in Procs : Succeeded(q)'
      ]_vars

(* both processes passed the check for a version that had no archival file *)
(* and both wrote it, neither refused                                      *)
BothWroteSameVersion ==
    /\ \A p \in Procs : Succeeded(p)
    /\ archive[ManifestPath] # NoFile

----------------------------------------------------------------------------
(* the error of a completeness failure                                     *)

(* the same pair of id sets with the sides exchanged: what the registry    *)
(* lacked the index now lacks                                              *)
MirroredCompletenessError ==
    validate_acu_completeness(
        RegistryDoc(SortKeys(IndexKeys), Cardinality(IndexKeys), "STRUCTURAL_ONLY"),
        IndexDoc(RecordIdSet)).error

(* C15: when the registry id set differs from the index id set the         *)
(* completeness failure cites the direction: the error for an id missing   *)
(* from the index differs from the error for an extra id in the index.     *)
MismatchDirectionCited ==
    ( /\ CompletenessFailed
      /\ RecordIdSet # IndexKeys
      /\ RecordIdSet \subseteq IndexKeys \/ IndexKeys \subseteq RecordIdSet )
        => val.error # MirroredCompletenessError

----------------------------------------------------------------------------
(* the mode check                                                          *)

ModeAllowList == {JStr("STRUCTURAL_ONLY")}

ModeDone == Loaded /\ "mode" \in {val.evaluated[i] : i \in 1..Len(val.evaluated)}

ModeFailed ==
    /\ ModeDone /\ val.pc = "done" /\ val.status = "INVALID"
    /\ val.evaluated[Len(val.evaluated)] = "mode"
    /\ val.error \in {Error("Operating mode mismatch in manifest."),
                      Error("Operating mode mismatch in registry.")}

(* C16: validate_operating_mode succeeds iff the manifest's operating_mode *)
(* equals the registry's and the shared value is on the allow-list, whose  *)
(* one token is STRUCTURAL_ONLY; every other pair of modes makes the run   *)
(* fail with a mode error.                                                 *)
ModeIffEqualAndAllowed ==
    ModeDone =>
        ( ~ModeFailed <=>
             /\ Item(files.manifest, "operating_mode") = Item(files.registry, "operating_mode")
             /\ Item(files.manifest, "operating_mode") \in ModeAllowList )

(* the two modes are equal and the run failed, their value not being       *)
(* sanctioned                                                              *)
EqualModesRejected ==
    /\ ModeFailed
    /\ Item(files.manifest, "operating_mode") = Item(files.registry, "operating_mode")

----------------------------------------------------------------------------
(* the rolling snapshot of a verified run                                  *)

RecomputedHash ==
    SnapDigest[[registry |-> files.registry, acu_index |-> files.acu_index,
                dependency_graph |-> files.dependency_graph]]

ExpectedRolling ==
    JObj(<< KV("registry_hash", JStr(RecomputedHash)),
            KV("operating_mode", Get(files.manifest, "operating_mode")) >>)

(* C17: every snapshot run whose manifest fields are present and whose     *)
(* recomputed hash equals the manifest's has replaced the rolling snapshot *)
(* with the recomputed hash and the manifest's operating_mode by the time  *)
(* it reaches the immutability check, and so also when it is then refused  *)
(* because the version is already published.                               *)
RollingReplacedBeforeLock ==
    /\ (ManifestWellFormed /\ HashVerifies /\ snap["p1"].pc \in {"rolled", "unlocked", "done"})
          => rolling = ExpectedRolling
    /\ (snap["p1"].pc = "done" /\ snap["p1"].message = MsgLocked)
          => ManifestWellFormed /\ HashVerifies

(* a run refused at the archival step left its own hash in the rolling     *)
(* snapshot, another than the published archival snapshot holds            *)
RefusedRunReplacedRolling ==
    /\ snap["p1"].pc = "done" /\ snap["p1"].message = MsgLocked
    /\ rolling = ExpectedRolling
    /\ Item(archive[ManifestPath], "registry_hash") # Item(rolling, "registry_hash")

----------------------------------------------------------------------------
(* validate_dag one pass of its while loop at a time                       *)

(* the validator inside validate_dag: its locals, and the nodes it has     *)
(* taken from the queue so far                                             *)
KahnIdle ==
    [pc |-> "idle", error |-> NoError, adj |-> <<>>, popped |-> <<>>,
     k |-> [queue |-> <<>>, visited |-> 0, in_degree |-> <<>>]]

InitKahn ==
    /\ files \in {[registry |-> NoFile, acu_index |-> NoFile,
                   dependency_graph |-> g, manifest |-> NoFile] :
                     g \in GraphsOver(NodeIds, MaxEdges)}
    /\ gitdiff = DiffClean
    /\ rolling = NoFile
    /\ archive = [name \in ArchiveNames |-> NoFile]
    /\ val = KahnIdle
    /\ snap = [p \in Procs |-> SnapIdle]

(* lines 107-115: the endpoint check, in_degree, adj and the first queue *)
K_Start ==
    /\ val.pc = "idle"
    /\ \E iter \in IterOrders(node_set(files.dependency_graph)) :
          LET nodes == node_set(files.dependency_graph)
              edges == Elems(Item(files.dependency_graph, "edges"))
          IN  IF \E i \in 1..Len(edges) :
                     Item(edges[i], "from") \notin nodes \/ Item(edges[i], "to") \notin nodes
              THEN val' = [val EXCEPT
                              !.pc = "done",
                              !.error = Error("Dependency graph contains undefined nodes.")]
              ELSE LET in_degree == [node \in nodes |-> in_degree_of(node, edges)]
                   IN  val' = [val EXCEPT
                                  !.pc = "loop",
                                  !.adj = [node \in nodes |-> adj_of(node, edges)],
                                  !.k = [queue |-> zero_in_degree(iter, in_degree),
                                         visited |-> 0,
                                         in_degree |-> in_degree]]
    /\ UNCHANGED <<files, gitdiff, rolling, archive, snap>>

(* lines 117-124: one pass of the while loop *)
K_Step ==
    /\ val.pc = "loop"
    /\ val.k.queue # <<>>
    /\ val' = [val EXCEPT !.k = kahn_step(val.k, val.adj),
                          !.popped = Append(@, Head(val.k.queue))]
    /\ UNCHANGED <<files, gitdiff, rolling, archive, snap>>

(* lines 126-135: the queue is empty, the verdict *)
K_Verdict ==
    /\ val.pc = "loop"
    /\ val.k.queue = <<>>
    /\ val' = [val EXCEPT
                  !.pc = "done",
                  !.error = IF val.k.visited # Cardinality(node_set(files.dependency_graph))
                            THEN Error("Dependency graph contains a cycle.")
                            ELSE NoError]
    /\ UNCHANGED <<files, gitdiff, rolling, archive, snap>>

NextKahn ==
    \/ K_Start
    \/ K_Step
    \/ K_Verdict

(* the interpreter keeps executing the one thread of the validator *)
SpecKahn == InitKahn /\ [][NextKahn]_vars /\ WF_vars(NextKahn)

KahnSafe ==
    val.pc \in {"loop", "done"} =>
        /\ \A i \in 1..Len(val.popped), j \in 1..Len(val.popped) :
              val.popped[i] = val.popped[j] => i = j
        /\ val.k.visited = Len(val.popped)
        /\ val.k.visited <= Cardinality(Declared)
        /\ \A node \in DOMAIN val.k.in_degree : val.k.in_degree[node] >= 0
        /\ \A i \in 1..Len(val.k.queue) : val.k.queue[i] \in DOMAIN val.adj

(* C18: the acyclicity check is total: on every graph whose edge endpoints *)
(* are all declared the Kahn loop takes each node from the queue at most   *)
(* once, never lowers an in-degree below zero, counts at most as many      *)
(* visits as there are declared nodes, and ends with a verdict.            *)
KahnLoopTotal == []KahnSafe /\ <>(val.pc = "done")

(* the loop emptied its queue on a graph of three declared nodes with a    *)
(* cycle, having visited the one node outside the cycle                    *)
CycleLeftUnvisited ==
    /\ val.pc = "done" /\ val.error = Error("Dependency graph contains a cycle.")
    /\ Cardinality(Declared) = 3 /\ AllDeclared
    /\ val.k.visited = 1
    /\ \E node \in DOMAIN val.k.in_degree : val.k.in_degree[node] = 0

----------------------------------------------------------------------------
(* the snapshots a successful run leaves                                   *)

(* C19: right after a snapshot run that completed successfully, runs being *)
(* executed one at a time, the rolling snapshot's registry_hash, the       *)
(* registry_hash of the archival snapshot of the manifest's version, the   *)
(* hash recomputed from registry, index and graph and the manifest's       *)
(* registry_hash are equal, and the archival snapshot's registry_version   *)
(* is the manifest's.                                                      *)
SnapshotsAgreeAfterSuccess ==
    Succeeded("p1") =>
        /\ archive[ManifestPath] # NoFile /\ rolling # NoFile
        /\ Item(rolling, "registry_hash") = JStr(RecomputedHash)
        /\ Item(archive[ManifestPath], "registry_hash") = JStr(RecomputedHash)
        /\ Item(files.manifest, "registry_hash") = JStr(RecomputedHash)
        /\ Item(archive[ManifestPath], "registry_version") =
              Item(files.manifest, "registry_version")

(* a successful run for a manifest whose version is a number, beside the   *)
(* archival snapshot of an earlier version with another hash               *)
SucceededBesideEarlierVersion ==
    /\ Succeeded("p1")
    /\ Item(files.manifest, "registry_version").t = "num"
    /\ \E name \in ArchiveNames \ {ManifestPath} :
          /\ archive[name] # NoFile
          /\ Item(archive[name], "registry_hash") # Item(rolling, "registry_hash")

====
